---- MODULE Spec2Model ----
(***************************************************************************)
(* Model of koishi-plugin-w-message-db: the history backfill engine        *)
(* (MdbService.fetchHistory, getMessageIter, getStartTokenBefore) over a   *)
(* message store keyed by message id and a paged bot message source.       *)
(***************************************************************************)
EXTENDS Integers, Sequences, FiniteSets, TLC

(* ------------------------------ bounds -------------------------------- *)

\* Longest message history of the first guild's source.
MaxSrcLen == 3
\* Largest maxCount option passed to fetchHistory.
MaxMaxCount == 2
\* config.historyFetching.pageSize of the deployment explored.
PageSize == 2
\* Number of 'message' / 'send' events the ingestion hook observes.
MaxEvents == 2
\* Number of gc() calls (cron firings or message-db.gc commands).
MaxGcCalls == 1
\* Number of days the clock advances while the plugin is live.
MaxTicks == 1
\* Number of message-db.guild.track commands.
MaxTracks == 1
\* Number of getMessageList requests followed in one guild's task.
MaxPageReqs == 6

(* --------------------------- JS value helpers ------------------------- *)

\* null / undefined (timestamps are unsigned and message ids are positive).
Null == 0 - 1

\* ToNumber(null) is 0: `timestamp < duration.start` with start = null.
ToNumber(x) == IF x = Null THEN 0 ELSE x

\* JS relational `a < b` on a number and a number-or-null.
JsLt(a, b) == ToNumber(a) < ToNumber(b)

\* JS truthiness of a number-or-null (`duration.end ? ... : undefined`).
Truthy(x) == x # Null /\ x # 0

\* Array.prototype.reverse
Reverse(s) == [i \in 1..Len(s) |-> s[Len(s) + 1 - i]]

Max(a, b) == IF a > b THEN a ELSE b

(* ------------------------------ guilds -------------------------------- *)

\* getGid: `${platform}:${guildId}`
getGid(q) == <<q.platform, ":", q.guildId>>

Guild1 == [platform |-> "onebot", guildId |-> "g1", name |-> "G1", managerBotId |-> "b1"]
Guild2 == [platform |-> "discord", guildId |-> "g2", name |-> "G2", managerBotId |-> "b2"]

KnownGuilds == {Guild1, Guild2}
Gids == {getGid(g) : g \in KnownGuilds}

\* The guild tasks followed. Every fetchHistory call maps the tracked guilds
\* to tasks of its own: the tasks of the call of start() (or of the one call
\* of a backfill taken alone) are named by the gid, the tasks of the call of
\* the fetch-history command by the gid under the command's name; the
\* latter exist once the command has made its call.
CommandTask(gid) == <<"fetch-history">> \o gid
CommandTasks == {CommandTask(gid) : gid \in Gids}
Tasks == Gids \cup CommandTasks

\* The gid of the guild a task walks.
GidOf(task) == IF task \in Gids THEN task ELSE Tail(task)

\* First message id of a guild's history (ids are platform-native, disjoint per guild).
IdBase(gid) == IF gid = getGid(Guild1) THEN 10 ELSE 20

\* History lengths tried: the first guild's history is the one explored in
\* depth, the second guild is its sibling in the batch.
SrcLens(gid) == IF gid = getGid(Guild1) THEN 0..MaxSrcLen ELSE {1}

\* Message contents: empty, or some text.
Contents(gid) == IF gid = getGid(Guild1) THEN {"", "x"} ELSE {"x"}

\* The sender the platform reports with a guild's messages.
UserOf(gid) ==
    IF gid = getGid(Guild1) THEN [id |-> "u1", nick |-> "", name |-> "U1"]
    ELSE [id |-> "u2", nick |-> "N2", name |-> "U2"]

\* msg.user as listed: the sender, or nothing (<<>>) where the platform
\* reports none. The second guild's message is tried both ways.
Users(gid) == IF gid = getGid(Guild1) THEN {<<UserOf(gid)>>} ELSE {<<UserOf(gid)>>, <<>>}

\* The histories a guild's platform may hold, oldest first; the message at
\* position p was sent at time p.
Histories(gid) ==
    UNION { { [p \in 1..n |-> [id |-> IdBase(gid) + p, content |-> c[p], timestamp |-> p,
                                user |-> u]]
              : c \in [1..n -> Contents(gid)], u \in Users(gid) }
            : n \in SrcLens(gid) }

\* duration.start / duration.end values tried.
Starts == {Null, 3}
Ends == {Null, 3}

VARIABLES
    savedGuildMap,  \* Map<gid, SavedGuild> in insertion order (sequence of records)
    bots,           \* ctx.bots: sequence of [platform, selfId, isActive, isNapCat]
    store,          \* table w-message: set of rows, primary key id
    store0,         \* the table when fetchHistory was called
    source,         \* gid -> platform history, oldest first
    endStyle,       \* how the platform ends a listing: "nonext" | "nodata"
    pageSize,       \* config.historyFetching.pageSize
    fh,             \* fetchHistory call: "idle" | "running" | "returned" | "thrown"
    opts,           \* FetchHistoryOptions of the call
    tracked,        \* this.trackedGuilds as read by the call
    report,         \* FetchHistoryResult
    cmd,            \* the fetchHistory call of the fetch-history command:
                    \*   [fh, opts, tracked, report]
    pc,             \* task -> position of the guild's task
    cursor,         \* task -> getMessageIter's `next`
    startToken,     \* task -> startToken passed to getMessageIter
    buf,            \* task -> the current page from the message the loop holds on
    listNext,       \* task -> list.next of the current page
    count,          \* task -> `count`
    inserted,       \* task -> `inserted`
    result,         \* task -> FetchHistoryGuildResult
    walked,         \* task -> messages yielded to the for-await loop
    upserts,        \* task -> upsert calls issued by the task, with their answer
    pageReqs,       \* task -> number of getMessageList requests
    storeReads,     \* task -> number of store queries
    threw           \* task -> where an exception was raised, or "none"

VARIABLES
    config,         \* MdbService.Config: readonly, requireTracking, gc
    now,            \* Date.now()
    guildTable,     \* table w-message-guild: set of rows, primary key (platform, guildId)
    events,         \* number of 'message' / 'send' events dispatched so far
    hook,           \* event number -> the saveMessage call handling it
    gcCalls,        \* number of gc() calls so far
    gc              \* the latest gc() call

VARIABLES
    track,          \* the message-db.guild.track commands run so far
    call            \* start() and the fetch-history command: how far each has come

opsVars == <<track, call>>
liveVars == <<config, now, guildTable, events, hook, gcCalls, gc, opsVars>>
envVars == <<savedGuildMap, bots, source, endStyle, pageSize, liveVars>>
callVars == <<fh, opts, tracked, report, store0, cmd>>
taskVars == <<pc, cursor, startToken, buf, listNext, count, inserted, result>>
logVars == <<walked, upserts, pageReqs, storeReads, threw>>
vars == <<envVars, callVars, taskVars, logVars, store>>

(* ------------------------------ registry ------------------------------ *)

\* get savedGuilds()
savedGuilds == savedGuildMap

\* Mutant of trackedGuilds: the isTracked filter is missing.
allGuildsAsTracked == savedGuildMap

\* get trackedGuilds(): savedGuilds.filter(it => it.isTracked)
IsTracked(g) == g.isTracked
trackedGuilds == SelectSeq(savedGuilds, IsTracked)

(* ------------------------------- store -------------------------------- *)

StoredIds(st) == {r.id : r \in st}

\* Mutant of DbUpsert: on a stored id the row is rewritten with the values
\* given.
DbUpsertUpdate(st, row) ==
    IF row.id \in StoredIds(st)
      THEN [store |-> {r \in st : r.id # row.id} \cup {row}, inserted |-> 0]
      ELSE [store |-> st \cup {row}, inserted |-> 1]

\* database.upsert('w-message', [ message ]) by primary key id, on the
\* storage contract of the archive: insert-or-ignore, a stored id is a no-op;
\* `inserted` is the number of rows actually inserted.
DbUpsert(st, row) ==
    IF row.id \in StoredIds(st)
      THEN [store |-> st, inserted |-> 0]
      ELSE [store |-> st \cup {row}, inserted |-> 1]

\* select('w-message').where({ timestamp: { $lt: time } })
\*   .orderBy('timestamp', 'desc').limit(1): the rows that may come first.
LatestBefore(st, time) ==
    {r \in st : r.timestamp < time
                /\ \A q \in st : q.timestamp < time => q.timestamp <= r.timestamp}

\* a || b on strings
OrElse(a, b) == IF a # "" THEN a ELSE b

\* Reading msg.user.id raises a TypeError when the message carries no user.
RecordThrows(msg) == msg.user = <<>>

\* The SavedMessage built from a source message of a guild:
\* userId: msg.user.id, username: msg.user.nick || msg.user.name.
MessageRow(guild, msg) ==
    [id |-> msg.id, platform |-> guild.platform, guildId |-> guild.guildId,
     userId |-> msg.user[1].id, username |-> OrElse(msg.user[1].nick, msg.user[1].name),
     content |-> msg.content, timestamp |-> msg.timestamp]

(* -------------------------------- bots -------------------------------- *)

\* this.ctx.bots.find(it => it.platform === platform && it.selfId === managerBotId):
\* the first connection that matches, as a sequence of one element, or <<>>.
FindBot(guild) ==
    LET hits == {i \in 1..Len(bots) : /\ bots[i].platform = guild.platform
                                      /\ bots[i].selfId = guild.managerBotId}
    IN  IF hits = {} THEN <<>>
        ELSE <<bots[CHOOSE i \in hits : \A j \in hits : i <= j]>>

\* Mutant of BotUnavailable: the isActive check is missing.
BotAbsent(guild) == FindBot(guild) = <<>>

\* ! bot || ! bot.isActive
BotUnavailable(guild) ==
    FindBot(guild) = <<>> \/ ~FindBot(guild)[1].isActive

\* Mutant of SupportsResume: the isNapCat check is missing.
SupportsResumeAnyOnebot(guild) ==
    FindBot(guild) # <<>> /\ FindBot(guild)[1].platform = "onebot"

\* bot.platform === 'onebot' && bot.internal.isNapCat
SupportsResume(guild) ==
    /\ FindBot(guild) # <<>>
    /\ FindBot(guild)[1].platform = "onebot" /\ FindBot(guild)[1].isNapCat

\* Position in a history of the message a cursor names; past the newest
\* message when the cursor is unset; 0 when the history has no such message.
CursorPos(src, cur) ==
    IF cur = Null THEN Len(src) + 1
    ELSE IF \E i \in 1..Len(src) : src[i].id = cur
      THEN CHOOSE i \in 1..Len(src) : src[i].id = cur
      ELSE 0

\* bot.getMessageList(guildId, next, 'before', limit): up to `limit` messages
\* older than the cursor, oldest first, and the cursor of the page before.
\* Past the oldest message a platform answers with a page without data
\* ("nodata"), with no next cursor on the last page ("nonext"), or with an
\* empty data list that still carries a cursor ("emptynext").
GetMessageList(src, cur, limit, style) ==
    LET k == CursorPos(src, cur)
        lo == Max(1, k - limit)
        data == SubSeq(src, lo, k - 1)
    IN  IF style = "nodata"
          THEN [hasData |-> data # <<>>, data |-> data,
                next |-> IF data # <<>> THEN data[1].id ELSE Null]
          ELSE IF style = "emptynext"
            THEN [hasData |-> TRUE, data |-> data,
                  next |-> IF data # <<>> THEN data[1].id ELSE cur]
            ELSE [hasData |-> TRUE, data |-> data,
                  next |-> IF lo > 1 THEN data[1].id ELSE Null]

(* -------------------------------- Init -------------------------------- *)

SavedGuild(g, isTracked) ==
    [platform |-> g.platform, guildId |-> g.guildId, name |-> g.name,
     managerBotId |-> g.managerBotId, isTracked |-> isTracked]

\* The live connections a deployment may have for a guild's manager bot.
BotChoices(g) ==
    { <<>>, <<[platform |-> g.platform, selfId |-> g.managerBotId, isActive |-> FALSE, isNapCat |-> FALSE]>> }
    \cup { <<[platform |-> g.platform, selfId |-> g.managerBotId, isActive |-> TRUE, isNapCat |-> n]>>
            : n \in (IF g.platform = "onebot" THEN BOOLEAN ELSE {FALSE}) }

\* The connection tried for the second guild's manager bot: active. The
\* first guild is the one tried with a missing or inactive connection, and
\* beside a sibling without a task (the second guild untracked).
SiblingBots ==
    {b \in BotChoices(Guild2) : b # <<>> /\ b[1].isActive}

\* The histories tried for the second guild: a history that is never listed
\* (the guild is untracked) is tried with its senders only.
SiblingHistories(isListed) ==
    IF isListed THEN Histories(getGid(Guild2))
    ELSE {h \in Histories(getGid(Guild2)) : \A i \in 1..Len(h) : ~RecordThrows(h[i])}

\* The rows the table may hold of a history: any of its non-empty messages
\* that a record can be built from.
RowsOf(g, src) ==
    {MessageRow(g, src[i]) : i \in {j \in 1..Len(src) : src[j].content # "" /\ ~RecordThrows(src[j])}}

NoResult == [type |-> "none", error |-> "", inserted |-> 0, exit |-> ""]
NoReport == [results |-> <<>>, errorCount |-> 0, okCount |-> 0, messageCount |-> 0]
NoOpts == [start |-> Null, end |-> Null, stopOnOld |-> TRUE, maxCount |-> 0]
NoCmd == [fh |-> "idle", opts |-> NoOpts, tracked |-> <<>>, report |-> NoReport]

\* MdbService.Config defaults.
DefaultConfig ==
    [readonly |-> FALSE, requireTracking |-> FALSE,
     gc |-> [enabled |-> TRUE, olderThan |-> 3, untrackedOnly |-> FALSE]]

\* A day in milliseconds, as gc() spells it.
DayMs == 24 * 60 * 60 * 1000

\* The clock when the plugin goes live.
LaunchTime == 2 * DayMs

NoSession == [platform |-> "", selfId |-> "", guildId |-> "", userId |-> "",
             username |-> "", content |-> "",
              timestamp |-> 0, messageId |-> 0]
NoHook == [pc |-> "none", session |-> NoSession, wasKnown |-> FALSE,
           wasTracked |-> FALSE, upsert |-> "none"]
NoGc == [pc |-> "idle", now |-> 0, minTime |-> 0, keep |-> {}, ret |-> Null,
         issued |-> FALSE, before |-> {}, after |-> {}]
NoCall == [get |-> "none", rows |-> {}, started |-> FALSE, via |-> "none",
           outcome |-> "none", force |-> FALSE, start |-> Null, end |-> Null]

\* No event has been observed and gc() has not run.
LiveIdle ==
    /\ now = LaunchTime
    /\ events = 0
    /\ hook = [t \in 1..MaxEvents |-> NoHook]
    /\ gcCalls = 0
    /\ gc = NoGc
    /\ track = <<>>
    /\ call = NoCall

\* fetchHistory has not been called.
FetchIdle ==
    /\ fh = "idle"
    /\ opts = NoOpts
    /\ tracked = <<>>
    /\ report = NoReport
    /\ cmd = NoCmd
    /\ pc = [gid \in Gids |-> "none"]
    /\ cursor = [gid \in Gids |-> Null]
    /\ startToken = [gid \in Gids |-> Null]
    /\ buf = [gid \in Gids |-> <<>>]
    /\ listNext = [gid \in Gids |-> Null]
    /\ count = [gid \in Gids |-> 0]
    /\ inserted = [gid \in Gids |-> 0]
    /\ result = [gid \in Gids |-> NoResult]
    /\ walked = [gid \in Gids |-> <<>>]
    /\ upserts = [gid \in Gids |-> <<>>]
    /\ pageReqs = [gid \in Gids |-> 0]
    /\ storeReads = [gid \in Gids |-> 0]
    /\ threw = [gid \in Gids |-> "none"]

\* The guild table after start(): the rows the registry was loaded from.
TableOf(map) == {map[i] : i \in 1..Len(map)}

InitWith(styles) ==
    /\ config = DefaultConfig
    /\ LiveIdle
    /\ \E t \in BOOLEAN :
         savedGuildMap = <<SavedGuild(Guild1, TRUE), SavedGuild(Guild2, t)>>
    /\ guildTable = TableOf(savedGuildMap)
    /\ \E b1 \in BotChoices(Guild1), b2 \in SiblingBots : bots = b1 \o b2
    /\ source \in [Gids -> UNION {Histories(gid) : gid \in Gids}]
    /\ source[getGid(Guild1)] \in Histories(getGid(Guild1))
    /\ source[getGid(Guild2)] \in SiblingHistories(savedGuildMap[2].isTracked)
    /\ \E s1 \in SUBSET RowsOf(Guild1, source[getGid(Guild1)]),
          s2 \in SUBSET RowsOf(Guild2, source[getGid(Guild2)]) : store = s1 \cup s2
    /\ store0 = store
    /\ endStyle \in styles
    /\ pageSize = PageSize
    /\ FetchIdle

\* The plugin with a platform that ends its listings by a page without next
\* cursor or by a page without data.
Init == InitWith({"nonext", "nodata"})

(* ------------------------------ results ------------------------------- *)

ErrorResult(e) == [type |-> "error", error |-> e, inserted |-> 0, exit |-> ""]
OkResult(n, exit) == [type |-> "ok", error |-> "", inserted |-> n, exit |-> exit]

\* The options and the guild list of the call a task belongs to.
OptsOf(task) == IF task \in Gids THEN opts ELSE cmd.opts
TrackedOf(task) == IF task \in Gids THEN tracked ELSE cmd.tracked

\* The guild record of a task, from the list read by its call.
GuildOf(task) ==
    CHOOSE g \in {TrackedOf(task)[i] : i \in 1..Len(TrackedOf(task))} : getGid(g) = GidOf(task)

TrackedGids == {getGid(tracked[i]) : i \in 1..Len(tracked)}

(* --------------------------- fetchHistory ----------------------------- *)

\* The position a guild's task reaches in the synchronous part of the map
\* callback: the bot lookup, and whether the resume query is awaited.
FirstPc(guild, duration) ==
    IF BotUnavailable(guild) THEN "done"
    ELSE IF Truthy(duration.end) /\ SupportsResume(guild) THEN "resume"
    ELSE "request"

\* A per-task variable with the tasks of a new call added: `let count = 0`,
\* `let inserted = 0` and the like of every map callback. A task the
\* variable already holds keeps its value.
WithTasks(f, mine, v) ==
    [task \in DOMAIN f \cup mine |-> IF task \in DOMAIN f THEN f[task] ELSE v]

\* The task a call has for a guild.
TaskOf(c, gid) == IF c = "command" THEN CommandTask(gid) ELSE gid

\* fetchHistory({ duration, stopOnOld, maxCount }) as called by `c`: the
\* call, up to the first await of every guild's task. Every call has its own
\* tasks, counters and results, and runs beside the calls made before it.
FetchHistoryCall(c, guilds, start, end, stopOnOld, maxCount) ==
    LET o == [start |-> start, end |-> end, stopOnOld |-> stopOnOld, maxCount |-> maxCount]
        gs == {guilds[i] : i \in 1..Len(guilds)}
        mine == {TaskOf(c, getGid(g)) : g \in gs}
        G(task) == CHOOSE g \in gs : getGid(g) = GidOf(task)
        dur == [start |-> start, end |-> end]
    IN  /\ IF c = "command"
              THEN /\ cmd' = [fh |-> "running", opts |-> o, tracked |-> guilds,
                              report |-> NoReport]
                   /\ UNCHANGED <<fh, opts, tracked, report, store0>>
              ELSE /\ fh' = "running"
                   /\ opts' = o
                   /\ tracked' = guilds
                   /\ store0' = store
                   /\ UNCHANGED <<report, cmd>>
        /\ pc' = [task \in DOMAIN pc \cup mine |->
                    IF task \in mine THEN FirstPc(G(task), dur) ELSE pc[task]]
        /\ result' = [task \in DOMAIN result \cup mine |->
                    IF task \in mine
                      THEN IF BotUnavailable(G(task))
                             THEN ErrorResult("bot-not-available") ELSE NoResult
                      ELSE result[task]]
        /\ cursor' = WithTasks(cursor, mine, Null)
        /\ startToken' = WithTasks(startToken, mine, Null)
        /\ buf' = WithTasks(buf, mine, <<>>)
        /\ listNext' = WithTasks(listNext, mine, Null)
        /\ count' = WithTasks(count, mine, 0)
        /\ inserted' = WithTasks(inserted, mine, 0)
        /\ walked' = WithTasks(walked, mine, <<>>)
        /\ upserts' = WithTasks(upserts, mine, <<>>)
        /\ pageReqs' = WithTasks(pageReqs, mine, 0)
        /\ storeReads' = WithTasks(storeReads, mine, 0)
        /\ threw' = WithTasks(threw, mine, "none")
        /\ UNCHANGED store

\* fetchHistory called once on the registry as it stands.
FetchHistory(start, end, stopOnOld, maxCount) ==
    /\ fh = "idle"
    /\ FetchHistoryCall("start", trackedGuilds, start, end, stopOnOld, maxCount)
    /\ UNCHANGED envVars

\* getStartTokenBefore(bot, duration.end) returns: the id of a latest stored
\* message before the time, or undefined when there is none.
GetStartTokenBefore(gid) ==
    /\ pc[gid] = "resume"
    /\ \E tok \in (IF LatestBefore(store, OptsOf(gid).end) = {} THEN {Null}
                   ELSE {r.id : r \in LatestBefore(store, OptsOf(gid).end)}) :
         /\ startToken' = [startToken EXCEPT ![gid] = tok]
         /\ cursor' = [cursor EXCEPT ![gid] = tok]
    /\ pc' = [pc EXCEPT ![gid] = "request"]
    /\ storeReads' = [storeReads EXCEPT ![gid] = @ + 1]
    /\ UNCHANGED <<envVars, callVars, store, buf, listNext, count, inserted, result,
                   walked, upserts, pageReqs, threw>>

\* The store query of getStartTokenBefore raises: the await is outside the
\* try block, so the guild's task rejects.
GetStartTokenBeforeThrows(gid) ==
    /\ pc[gid] = "resume"
    /\ pc' = [pc EXCEPT ![gid] = "rejected"]
    /\ threw' = [threw EXCEPT ![gid] = "resume"]
    /\ storeReads' = [storeReads EXCEPT ![gid] = @ + 1]
    /\ UNCHANGED <<envVars, callVars, store, cursor, startToken, buf, listNext, count,
                   inserted, result, walked, upserts, pageReqs>>

(* --------------------------- getMessageIter --------------------------- *)

\* Mutant of IterAfter: the generator returns after its first page.
IterAfterOnePage(rest, nxt) == IF rest # <<>> THEN "yield" ELSE "exhausted"

\* Where the generator stands once the loop has taken a message and `rest`
\* is left of the page: the next yield, the return on `! list.next`, or the
\* next request with `next = list.next`.
IterAfter(rest, nxt) ==
    IF rest # <<>> THEN "yield"
    ELSE IF nxt = Null THEN "exhausted"
    ELSE "request"

\* Mutant of RequestPageThrows: the request is made outside the try block,
\* so the exception rejects the guild's task.
RequestPageThrowsUncaught(gid) ==
    /\ pc[gid] = "request"
    /\ pageReqs' = [pageReqs EXCEPT ![gid] = @ + 1]
    /\ pc' = [pc EXCEPT ![gid] = "rejected"]
    /\ threw' = [threw EXCEPT ![gid] = "page"]
    /\ UNCHANGED <<envVars, callVars, store, cursor, startToken, buf, listNext, count,
                   inserted, result, walked, upserts, storeReads>>

\* bot.getMessageList raises (network failure, a cursor the platform does not
\* know): caught by the try block of the guild's task.
RequestPageThrows(gid) ==
    /\ pc[gid] = "request"
    /\ pageReqs' = [pageReqs EXCEPT ![gid] = @ + 1]
    /\ pc' = [pc EXCEPT ![gid] = "done"]
    /\ result' = [result EXCEPT ![gid] = ErrorResult("internal-error")]
    /\ threw' = [threw EXCEPT ![gid] = "page"]
    /\ UNCHANGED <<envVars, callVars, store, cursor, startToken, buf, listNext, count,
                   inserted, walked, upserts, storeReads>>

(* ------------------------ the for-await loop body --------------------- *)

\* Mutant of ReachedMax: the count is incremented before it is compared.
ReachedMaxPreIncrement(cnt, maxCount) == cnt + 1 = maxCount

\* Mutant of ReachedMax: the run stops one message late.
ReachedMaxLate(cnt, maxCount) == cnt = maxCount + 1

\* count ++ === maxCount
ReachedMax(cnt, maxCount) == cnt = maxCount

\* Mutant of IsEmpty: empty messages are not skipped.
NeverEmpty(msg) == FALSE

\* ! msg.content
IsEmpty(msg) == msg.content = ""

\* Mutant of IsDone: an already stored message never ends the run.
IsDoneCutoffOnly(insertedIt, stopOnOld, timestamp, start) == JsLt(timestamp, start)

\* Mutant of IsDone: the duration.start cutoff only applies with stopOnOld.
IsDoneOnlyWhenStopOnOld(insertedIt, stopOnOld, timestamp, start) ==
    (insertedIt = 0 \/ JsLt(timestamp, start)) /\ stopOnOld

\* ! insertedIt && stopOnOld || timestamp < duration.start
IsDone(insertedIt, stopOnOld, timestamp, start) ==
    (insertedIt = 0 /\ stopOnOld) \/ JsLt(timestamp, start)

RECURSIVE TakeMessages(_, _, _, _, _)

\* The for-await loop from the top of an iteration to its next await or to
\* the task's return, as one turn runs it: the messages left of the page `b`
\* are taken one by one (count ++, the reached-max test, the empty test, the
\* record) until an upsert is issued, the iterator requests the next page or
\* returns, or the task returns.
TakeMessages(b, nxt, cnt, w, maxCount) ==
    LET to == IterAfter(b, nxt)
    IN  IF to # "yield"
          THEN [to |-> to, buf |-> b, next |-> nxt, count |-> cnt, walked |-> w]
        ELSE LET msg == Head(b)
                 taken == [buf |-> b, next |-> nxt, count |-> cnt + 1,
                           walked |-> Append(w, msg)]
             IN  IF ReachedMax(cnt, maxCount) THEN [to |-> "reached-max"] @@ taken
                 ELSE IF IsEmpty(msg)
                   THEN TakeMessages(Tail(b), nxt, cnt + 1, Append(w, msg), maxCount)
                 ELSE IF RecordThrows(msg) THEN [to |-> "record"] @@ taken
                 ELSE [to |-> "upsert"] @@ taken

\* The task after the loop ran on to `r`, with `ups` the upserts issued
\* before: suspended at `await database.upsert` (886) with the upsert of the
\* message taken in flight, suspended at the next getMessageList request, or
\* returned with its result.
Advance(gid, r, ups) ==
    /\ buf' = [buf EXCEPT ![gid] = r.buf]
    /\ count' = [count EXCEPT ![gid] = r.count]
    /\ walked' = [walked EXCEPT ![gid] = r.walked]
    /\ upserts' = [upserts EXCEPT ![gid] =
                     IF r.to = "upsert"
                       THEN Append(ups, [id |-> Head(r.buf).id,
                                         timestamp |-> Head(r.buf).timestamp,
                                         answer |-> "pending"])
                       ELSE ups]
    /\ pc' = [pc EXCEPT ![gid] = IF r.to \in {"request", "upsert"} THEN r.to ELSE "done"]
    /\ cursor' = [cursor EXCEPT ![gid] = IF r.to = "request" THEN r.next ELSE @]
    /\ result' = [result EXCEPT ![gid] =
                    IF r.to \in {"exhausted", "reached-max"} THEN OkResult(inserted'[gid], r.to)
                    ELSE IF r.to = "record" THEN ErrorResult("internal-error")
                    ELSE @]
    /\ threw' = [threw EXCEPT ![gid] = IF r.to = "record" THEN "record" ELSE @]

\* bot.getMessageList(guildId, next, 'before', limit) resolves with a page:
\* getMessageIter returns on a page without data, or yields the page's
\* messages to the loop, which runs to its next await.
RequestPage(gid) ==
    /\ pc[gid] = "request"
    /\ pageReqs[gid] < MaxPageReqs
    /\ CursorPos(source[GidOf(gid)], cursor[gid]) # 0
    /\ pageReqs' = [pageReqs EXCEPT ![gid] = @ + 1]
    /\ UNCHANGED inserted
    /\ LET list == GetMessageList(source[GidOf(gid)], cursor[gid], pageSize, endStyle)
           data == Reverse(list.data)
       IN  IF ~list.hasData
             THEN /\ pc' = [pc EXCEPT ![gid] = "done"]
                  /\ result' = [result EXCEPT ![gid] = OkResult(inserted[gid], "exhausted")]
                  /\ UNCHANGED <<buf, listNext, cursor, count, walked, upserts, threw>>
             ELSE /\ listNext' = [listNext EXCEPT ![gid] = list.next]
                  /\ Advance(gid, TakeMessages(data, list.next, count[gid], walked[gid],
                                               OptsOf(gid).maxCount), upserts[gid])
    /\ UNCHANGED <<envVars, callVars, store, startToken, storeReads>>

\* `await this.ctx.database.upsert('w-message', [ message ])` resolves for
\* the message in flight: `inserted += insertedIt`, the done test, and the
\* loop runs on to its next await.
UpsertReturns(gid) ==
    /\ pc[gid] = "upsert"
    /\ LET msg == Head(buf[gid])
           up == DbUpsert(store, MessageRow(GuildOf(gid), msg))
           ups == [upserts[gid] EXCEPT ![Len(upserts[gid])].answer =
                     IF up.inserted = 1 THEN "inserted" ELSE "ignored"]
       IN  /\ store' = up.store
           /\ inserted' = [inserted EXCEPT ![gid] = @ + up.inserted]
           /\ IF IsDone(up.inserted, OptsOf(gid).stopOnOld, msg.timestamp, OptsOf(gid).start)
                THEN /\ pc' = [pc EXCEPT ![gid] = "done"]
                     /\ result' = [result EXCEPT ![gid] = OkResult(inserted'[gid], "done")]
                     /\ upserts' = [upserts EXCEPT ![gid] = ups]
                     /\ UNCHANGED <<buf, cursor, count, walked, threw>>
                ELSE Advance(gid, TakeMessages(Tail(buf[gid]), listNext[gid], count[gid],
                                               walked[gid], OptsOf(gid).maxCount), ups)
    /\ UNCHANGED <<envVars, callVars, startToken, listNext, pageReqs, storeReads>>

\* The upsert in flight is rejected: caught by the try block.
UpsertThrows(gid) ==
    /\ pc[gid] = "upsert"
    /\ upserts' = [upserts EXCEPT ![gid][Len(upserts[gid])].answer = "rejected"]
    /\ pc' = [pc EXCEPT ![gid] = "done"]
    /\ result' = [result EXCEPT ![gid] = ErrorResult("internal-error")]
    /\ threw' = [threw EXCEPT ![gid] = "upsert"]
    /\ UNCHANGED <<envVars, callVars, store, cursor, startToken, buf, listNext, count,
                   inserted, walked, pageReqs, storeReads>>

(* ------------------------------ the join ------------------------------ *)

RECURSIVE DivideLoop(_, _, _), SumInserted(_)

\* The predicate fetchHistory divides by: it => it.type === 'error'
IsError(it) == it.type = "error"

\* The loop of divide: `for (const it of arr) if (pred(it)) trueArr.push(it)
\* else falseArr.push(it)`.
DivideLoop(arr, trueArr, falseArr) ==
    IF arr = <<>> THEN <<trueArr, falseArr>>
    ELSE IF IsError(Head(arr))
      THEN DivideLoop(Tail(arr), Append(trueArr, Head(arr)), falseArr)
      ELSE DivideLoop(Tail(arr), trueArr, Append(falseArr, Head(arr)))

\* Mutant of divide: every element is pushed to falseArr.
divideNoElse(arr) == <<DivideLoop(arr, <<>>, <<>>)[1], arr>>

\* divide(results, it => it.type === 'error')
divide(arr) == DivideLoop(arr, <<>>, <<>>)

\* oks.reduce((acc, { inserted: count }) => acc + count, 0)
SumInserted(oks) ==
    IF oks = <<>> THEN 0 ELSE Head(oks).inserted + SumInserted(Tail(oks))

\* The FetchHistoryResult built from the per-guild results.
MakeReport(results) ==
    LET parts == divide(results)
        errors == parts[1]
        oks == parts[2]
    IN  [results |-> results, errorCount |-> Len(errors), okCount |-> Len(oks),
         messageCount |-> SumInserted(oks)]

\* Promise.all resolves: every guild's task returned a result.
Return ==
    /\ fh = "running"
    /\ \A gid \in TrackedGids : pc[gid] = "done"
    /\ fh' = "returned"
    /\ report' = MakeReport([i \in 1..Len(tracked) |->
                    [guild |-> getGid(tracked[i])] @@ result[getGid(tracked[i])]])
    /\ UNCHANGED <<envVars, opts, tracked, store0, cmd, taskVars, logVars, store>>

\* Promise.all of the command's call resolves.
CommandReturn ==
    /\ cmd.fh = "running"
    /\ \A i \in 1..Len(cmd.tracked) : pc[CommandTask(getGid(cmd.tracked[i]))] = "done"
    /\ cmd' = [cmd EXCEPT !.fh = "returned",
                          !.report = MakeReport([i \in 1..Len(cmd.tracked) |->
                              [guild |-> getGid(cmd.tracked[i])]
                                @@ result[CommandTask(getGid(cmd.tracked[i]))]])]
    /\ UNCHANGED <<envVars, fh, opts, tracked, report, store0, taskVars, logVars, store>>

\* Promise.all rejects as soon as one guild's task rejects; the other tasks
\* keep running detached.
Reject ==
    /\ fh = "running"
    /\ \E gid \in TrackedGids : pc[gid] = "rejected"
    /\ fh' = "thrown"
    /\ UNCHANGED <<envVars, opts, tracked, store0, report, cmd, taskVars, logVars, store>>

\* Promise.all of the command's call rejects: the command's action throws.
CommandReject ==
    /\ cmd.fh = "running"
    /\ \E i \in 1..Len(cmd.tracked) : pc[CommandTask(getGid(cmd.tracked[i]))] = "rejected"
    /\ cmd' = [cmd EXCEPT !.fh = "thrown"]
    /\ UNCHANGED <<envVars, fh, opts, tracked, report, store0, taskVars, logVars, store>>

Next ==
    \/ \E start \in Starts, end \in Ends, stopOnOld \in BOOLEAN, maxCount \in 0..MaxMaxCount :
         FetchHistory(start, end, stopOnOld, maxCount)
    \/ \E gid \in Gids : GetStartTokenBefore(gid)
    \/ \E gid \in Gids : GetStartTokenBeforeThrows(gid)
    \/ \E gid \in Gids : RequestPage(gid)
    \/ \E gid \in Gids : RequestPageThrows(gid)
    \/ \E gid \in Gids : UpsertReturns(gid)
    \/ \E gid \in Gids : UpsertThrows(gid)
    \/ Return
    \/ Reject

Spec == Init /\ [][Next]_vars

\* The backfill on a platform that answers past the oldest message with an
\* empty data list and a cursor.
PagingInit == InitWith({"emptynext"})

PagingSpec == PagingInit /\ [][Next]_vars

(* ------------------------- ingestion hook ----------------------------- *)

\* What the live plugin leaves alone: the backfill's state.
fetchVars == <<bots, source, endStyle, pageSize, callVars, taskVars, logVars>>

\* this.savedGuildMap.get(gid): the entry under the key, if any.
MapGet(map, gid) == {map[i] : i \in {j \in 1..Len(map) : getGid(map[j]) = gid}}

\* this.savedGuildMap.set(gid, guild): replace in place, or append.
MapSet(map, gid, guild) ==
    IF MapGet(map, gid) # {}
      THEN [i \in 1..Len(map) |-> IF getGid(map[i]) = gid THEN guild ELSE map[i]]
      ELSE Append(map, guild)

\* database.upsert('w-message-guild', [ guild ]): insert or replace by (platform, guildId).
GuildUpsert(tab, guild) == {r \in tab : getGid(r) # getGid(guild)} \cup {guild}

\* The message id an event in a guild carries: the 'message' and the 'send'
\* event of one message carry the same id; ids differ between guilds.
MessageId(guildId) == IF guildId = Guild1.guildId THEN 31
                      ELSE IF guildId = Guild2.guildId THEN 32 ELSE 33

\* The sessions an event may carry at a given time: a message in one of the
\* guilds, or a direct message (no guildId).
Sessions(time) ==
    { [platform |-> g.platform, selfId |-> g.managerBotId, guildId |-> g.guildId,
       userId |-> UserOf(getGid(g)).id, username |-> UserOf(getGid(g)).name,
       content |-> "x", timestamp |-> time, messageId |-> MessageId(g.guildId)]
      : g \in KnownGuilds }
    \cup { [platform |-> Guild1.platform, selfId |-> Guild1.managerBotId, guildId |-> "",
            userId |-> UserOf(getGid(Guild1)).id, username |-> UserOf(getGid(Guild1)).name,
            content |-> "x", timestamp |-> time, messageId |-> MessageId("")] }

\* session.bot.getGuild(guildId).name
GetGuildName(session) ==
    IF \E g \in KnownGuilds : getGid(g) = getGid(session)
      THEN (CHOOSE g \in KnownGuilds : getGid(g) = getGid(session)).name
      ELSE ""

\* Mutant of HookIgnores: the guild-context check is missing.
HookIgnoresReadonlyOnly(cfg, session) == cfg.readonly

\* `if (config.readonly) return` ... `if (! session.guildId) return`
HookIgnores(cfg, session) == cfg.readonly \/ session.guildId = ""

\* `! savedGuild?.isTracked`
NotTracked(map, gid) == \A g \in MapGet(map, gid) : ~g.isTracked

\* Mutant of HookDrops: the requireTracking policy is not consulted.
HookDropsNever(cfg) == FALSE

\* `if (config.requireTracking) return`
HookDrops(cfg) == cfg.requireTracking

\* savedGuild = { platform, guildId, name, managerBotId: selfId, isTracked: false }
NewSavedGuild(session) ==
    [platform |-> session.platform, guildId |-> session.guildId,
     name |-> GetGuildName(session), managerBotId |-> session.selfId, isTracked |-> FALSE]

\* message = { id: messageId, platform, guildId, ..., content, timestamp }
SessionRow(session) ==
    [id |-> session.messageId, platform |-> session.platform, guildId |-> session.guildId,
     userId |-> session.userId, username |-> session.username,
     content |-> session.content, timestamp |-> session.timestamp]

\* saveMessage(session), up to its first await or its return.
SaveMessage(kind, session) ==
    /\ events < MaxEvents
    /\ events' = events + 1
    /\ LET gid == getGid(session)
           known == MapGet(savedGuildMap, gid) # {}
           untracked == NotTracked(savedGuildMap, gid)
           to == IF HookIgnores(config, session) THEN "done"
                 ELSE IF untracked /\ HookDrops(config) THEN "done"
                 ELSE IF untracked /\ ~known THEN "getGuild"
                 ELSE "upsertMessage"
       IN  hook' = [hook EXCEPT ![events + 1] =
                      [NoHook EXCEPT !.pc = to, !.session = session,
                                     !.wasKnown = known, !.wasTracked = ~untracked]]
    /\ UNCHANGED <<savedGuildMap, guildTable, store, config, now, gcCalls, gc, fetchVars, opsVars>>

\* `await session.bot.getGuild(guildId)` resolves: the entry is built, put in
\* the registry, and its upsert issued.
HookGetGuild(t) ==
    /\ hook[t].pc = "getGuild"
    /\ savedGuildMap' = MapSet(savedGuildMap, getGid(hook[t].session), NewSavedGuild(hook[t].session))
    /\ hook' = [hook EXCEPT ![t].pc = "upsertGuild"]
    /\ UNCHANGED <<guildTable, store, config, now, events, gcCalls, gc, fetchVars, opsVars>>

\* `await ctx.database.upsert('w-message-guild', [ savedGuild ])` resolves.
HookUpsertGuild(t) ==
    /\ hook[t].pc = "upsertGuild"
    /\ guildTable' = GuildUpsert(guildTable, NewSavedGuild(hook[t].session))
    /\ hook' = [hook EXCEPT ![t].pc = "upsertMessage"]
    /\ UNCHANGED <<savedGuildMap, store, config, now, events, gcCalls, gc, fetchVars, opsVars>>

\* `await ctx.database.upsert('w-message', [ message ])` resolves.
HookUpsertMessage(t) ==
    /\ hook[t].pc = "upsertMessage"
    /\ LET u == DbUpsert(store, SessionRow(hook[t].session))
       IN  /\ store' = u.store
           /\ hook' = [hook EXCEPT ![t].pc = "done",
                                   ![t].upsert = IF u.inserted = 1 THEN "inserted" ELSE "ignored"]
    /\ UNCHANGED <<savedGuildMap, guildTable, config, now, events, gcCalls, gc, fetchVars, opsVars>>

(* ------------------------- garbage collection ------------------------- *)

\* Mutant of GcDisabled: gc.enabled is not consulted.
GcAlwaysEnabled(cfg) == FALSE

\* `if (! this.config.gc.enabled) return null`
GcDisabled(cfg) == ~cfg.gc.enabled

\* Mutant of GcMinTime: olderThan is taken as hours.
GcMinTimeHours(time, olderThan) == time - olderThan * 60 * 60 * 1000

\* minTime = Date.now() - olderThan * 24 * 60 * 60 * 1000
GcMinTime(time, olderThan) == time - olderThan * 24 * 60 * 60 * 1000

\* Mutant of GcMatches: untrackedOnly is not consulted.
GcMatchesOld(row, minTime, untrackedOnly, keep) == row.timestamp < minTime

\* The delete's condition on a row.
GcMatches(row, minTime, untrackedOnly, keep) ==
    /\ row.timestamp < minTime
    /\ IF untrackedOnly THEN getGid(row) \notin keep ELSE TRUE

\* gc(), up to its return of null or to the await of database.remove.
GcCall ==
    /\ gcCalls < MaxGcCalls
    /\ gc.pc # "removing"
    /\ gcCalls' = gcCalls + 1
    /\ IF GcDisabled(config)
         THEN gc' = [NoGc EXCEPT !.pc = "returned", !.now = now, !.ret = Null]
         ELSE gc' = [NoGc EXCEPT !.pc = "removing", !.now = now, !.issued = TRUE,
                                 !.minTime = GcMinTime(now, config.gc.olderThan),
                                 !.keep = {getGid(trackedGuilds[i]) : i \in 1..Len(trackedGuilds)}]
    /\ UNCHANGED <<savedGuildMap, guildTable, store, config, now, events, hook, fetchVars, opsVars>>

\* database.remove('w-message', ...) resolves; gc() returns `removed`.
GcRemove ==
    /\ gc.pc = "removing"
    /\ LET removed == {r \in store : GcMatches(r, gc.minTime, config.gc.untrackedOnly, gc.keep)}
       IN  /\ store' = store \ removed
           /\ gc' = [gc EXCEPT !.pc = "returned", !.ret = Cardinality(removed),
                               !.before = store, !.after = store \ removed]
    /\ UNCHANGED <<savedGuildMap, guildTable, config, now, events, hook, gcCalls, fetchVars, opsVars>>

\* A day passes.
Tick ==
    /\ now < LaunchTime + MaxTicks * DayMs
    /\ now' = now + DayMs
    /\ UNCHANGED <<savedGuildMap, guildTable, store, config, events, hook, gcCalls, gc, fetchVars, opsVars>>

\* gc settings tried: disabled, daily, daily on untracked guilds only, and
\* every other day.
GcConfigs ==
    { [enabled |-> FALSE, olderThan |-> 1, untrackedOnly |-> FALSE],
      [enabled |-> TRUE, olderThan |-> 1, untrackedOnly |-> FALSE],
      [enabled |-> TRUE, olderThan |-> 1, untrackedOnly |-> TRUE],
      [enabled |-> TRUE, olderThan |-> 2, untrackedOnly |-> FALSE] }

\* Configurations of the live plugin: every gc setting under the default
\* hook switches, and every setting of the hook switches under a daily gc.
Configs ==
    { [DefaultConfig EXCEPT !.gc = g] : g \in GcConfigs }
    \cup { [readonly |-> ro, requireTracking |-> rt,
            gc |-> [enabled |-> TRUE, olderThan |-> 1, untrackedOnly |-> FALSE]]
           : ro \in BOOLEAN, rt \in BOOLEAN }

\* Registries the plugin may start with: no guild known yet, or one guild
\* tracked next to one known but untracked.
Registries ==
    { <<>>, <<SavedGuild(Guild1, TRUE), SavedGuild(Guild2, FALSE)>> }

\* Rows archived before the plugin went live: one just older than a day
\* before launch in each guild, and one exactly a day before launch.
SeedRows ==
    { [id |-> 1, platform |-> Guild1.platform, guildId |-> Guild1.guildId,
       userId |-> "u1", username |-> "U1",
       content |-> "x", timestamp |-> LaunchTime - DayMs - 1],
      [id |-> 2, platform |-> Guild2.platform, guildId |-> Guild2.guildId,
       userId |-> "u2", username |-> "N2",
       content |-> "x", timestamp |-> LaunchTime - DayMs - 1],
      [id |-> 3, platform |-> Guild1.platform, guildId |-> Guild1.guildId,
       userId |-> "u1", username |-> "U1",
       content |-> "x", timestamp |-> LaunchTime - DayMs] }

LiveInit ==
    /\ config \in Configs
    /\ LiveIdle
    /\ savedGuildMap \in Registries
    /\ guildTable = TableOf(savedGuildMap)
    /\ store \in {{}, SeedRows}
    /\ store0 = store
    /\ bots = <<>>
    /\ source = [gid \in Gids |-> <<>>]
    /\ endStyle = "nonext"
    /\ pageSize = PageSize
    /\ FetchIdle

LiveNext ==
    \/ \E kind \in {"message", "send"}, session \in Sessions(now) : SaveMessage(kind, session)
    \/ \E t \in 1..MaxEvents : HookGetGuild(t)
    \/ \E t \in 1..MaxEvents : HookUpsertGuild(t)
    \/ \E t \in 1..MaxEvents : HookUpsertMessage(t)
    \/ GcCall
    \/ GcRemove
    \/ Tick

LiveSpec == LiveInit /\ [][LiveNext]_vars

(* ------------------------- the track command -------------------------- *)

\* `savedGuild?.isTracked`
AlreadyTracked(map, gid) == \E g \in MapGet(map, gid) : g.isTracked

\* trackedGuild = { platform, guildId, managerBotId: selfId, name, isTracked: true }
TrackedGuild(session) ==
    [platform |-> session.platform, guildId |-> session.guildId,
     name |-> GetGuildName(session), managerBotId |-> session.selfId, isTracked |-> TRUE]

\* message-db.guild.track, up to its first await or its rejection.
TrackCommand(session) ==
    /\ Len(track) < MaxTracks
    /\ track' = Append(track,
         [pc |-> IF session.guildId = "" THEN "guild-only"
                 ELSE IF AlreadyTracked(savedGuildMap, getGid(session)) THEN "already-tracked"
                 ELSE "getGuild",
          session |-> session])
    /\ UNCHANGED <<savedGuildMap, guildTable, store, config, now, events, hook, gcCalls, gc,
                   call, fetchVars>>

\* `await session.bot.getGuild(guildId)` resolves: the tracked entry is put
\* in the registry and its upsert issued.
TrackGetGuild(k) ==
    /\ track[k].pc = "getGuild"
    /\ savedGuildMap' = MapSet(savedGuildMap, getGid(track[k].session), TrackedGuild(track[k].session))
    /\ track' = [track EXCEPT ![k].pc = "upsert"]
    /\ UNCHANGED <<guildTable, store, config, now, events, hook, gcCalls, gc,
                   call, fetchVars>>

\* `await ctx.database.upsert('w-message-guild', [ trackedGuild ])` resolves.
TrackUpsert(k) ==
    /\ track[k].pc = "upsert"
    /\ guildTable' = GuildUpsert(guildTable, TrackedGuild(track[k].session))
    /\ track' = [track EXCEPT ![k].pc = "done"]
    /\ UNCHANGED <<savedGuildMap, store, config, now, events, hook, gcCalls, gc,
                   call, fetchVars>>

\* The guild upsert of the track command rejects: the command fails.
TrackUpsertThrows(k) ==
    /\ track[k].pc = "upsert"
    /\ track' = [track EXCEPT ![k].pc = "failed"]
    /\ UNCHANGED <<savedGuildMap, guildTable, store, config, now, events, hook, gcCalls, gc,
                   call, fetchVars>>

\* The guild upsert of the hook rejects: saveMessage rejects, the message is
\* not saved.
HookUpsertGuildThrows(t) ==
    /\ hook[t].pc = "upsertGuild"
    /\ hook' = [hook EXCEPT ![t].pc = "failed"]
    /\ UNCHANGED <<savedGuildMap, guildTable, store, config, now, events, gcCalls, gc,
                   fetchVars, opsVars>>

\* The plugin after start(), with no message archived yet.
TrackInit ==
    /\ \E rt \in BOOLEAN : config = [DefaultConfig EXCEPT !.requireTracking = rt]
    /\ LiveIdle
    /\ savedGuildMap \in Registries
    /\ guildTable = TableOf(savedGuildMap)
    /\ store = {}
    /\ store0 = store
    /\ bots = <<>>
    /\ source = [gid \in Gids |-> <<>>]
    /\ endStyle = "nonext"
    /\ pageSize = PageSize
    /\ FetchIdle

TrackNext ==
    \/ \E kind \in {"message", "send"}, session \in Sessions(now) : SaveMessage(kind, session)
    \/ \E t \in 1..MaxEvents : HookGetGuild(t)
    \/ \E t \in 1..MaxEvents : HookUpsertGuild(t)
    \/ \E t \in 1..MaxEvents : HookUpsertGuildThrows(t)
    \/ \E t \in 1..MaxEvents : HookUpsertMessage(t)
    \/ \E session \in Sessions(now) : TrackCommand(session)
    \/ \E k \in 1..Len(track) : TrackGetGuild(k)
    \/ \E k \in 1..Len(track) : TrackUpsert(k)
    \/ \E k \in 1..Len(track) : TrackUpsertThrows(k)

TrackSpec == TrackInit /\ [][TrackNext]_vars

(* ------------------ start() and the fetch-history command ------------- *)

\* config.historyFetching.maxCount of the deployment explored.
HistoryMaxCount == MaxSrcLen

\* The orders in which database.get may return the rows of a table.
RowOrders(rows) ==
    {s \in [1..Cardinality(rows) -> rows] :
       \A i, j \in 1..Cardinality(rows) : i # j => s[i] # s[j]}

RECURSIVE MapFrom(_, _)

\* new Map(arr.map(it => [ getGid(it), it ])), entry by entry.
MapFrom(arr, map) ==
    IF arr = <<>> THEN map
    ELSE MapFrom(Tail(arr), MapSet(map, getGid(Head(arr)), Head(arr)))

\* mapFrom(guilds, getGid) on the rows database.get returned.
RegistryOf(guilds) == MapFrom(guilds, <<>>)

\* start() up to its await: database.get('w-message-guild', {}) reads the
\* table; the rows read are held until the promise resolves.
StartGet ==
    /\ call.get = "none"
    /\ call' = [call EXCEPT !.get = "read", !.rows = guildTable]
    /\ UNCHANGED <<savedGuildMap, bots, source, endStyle, pageSize, config, now, guildTable,
                   events, hook, gcCalls, gc, track, callVars, taskVars, logVars,
                   store>>

\* start() after its await: the registry is replaced by the rows read, in
\* the order storage returned them, and, unless read-only mode is set,
\* fetchHistory({ duration: { start: 0, end: this.launchTime } }) is called.
StartLoaded ==
    /\ call.get = "read"
    /\ ~call.started
    /\ \E guilds \in RowOrders(call.rows) :
         /\ savedGuildMap' = RegistryOf(guilds)
         /\ IF config.readonly
              THEN /\ call' = [call EXCEPT !.started = TRUE]
                   /\ UNCHANGED <<callVars, taskVars, logVars, store>>
              ELSE /\ call' = [call EXCEPT !.started = TRUE, !.via = "start"]
                   /\ FetchHistoryCall("start", SelectSeq(RegistryOf(guilds), IsTracked),
                                       0, LaunchTime, TRUE, HistoryMaxCount)
    /\ UNCHANGED <<bots, source, endStyle, pageSize, config, now, guildTable, events, hook,
                   gcCalls, gc, track>>

\* parseDuration: `if (start && end && start >= end) throw`
ParseRejects(start, end) == Truthy(start) /\ Truthy(end) /\ start >= end

\* message-db.fetch-history [duration] with options force and maxCount, up
\* to the await of its fetchHistory call.
FetchHistoryCommand(force, start, end, maxCount) ==
    /\ call.outcome = "none"
    /\ IF ~force /\ config.readonly
         THEN /\ call' = [call EXCEPT !.outcome = "readonly", !.force = force,
                                      !.start = start, !.end = end]
              /\ UNCHANGED <<callVars, taskVars, logVars, store>>
         ELSE IF ParseRejects(start, end)
           THEN /\ call' = [call EXCEPT !.outcome = "end-before-start", !.force = force,
                                        !.start = start, !.end = end]
                /\ UNCHANGED <<callVars, taskVars, logVars, store>>
           ELSE /\ call' = [call EXCEPT !.outcome = "ran", !.force = force,
                                        !.start = start, !.end = end]
                /\ FetchHistoryCall("command", trackedGuilds, start, end, FALSE,
                                    IF maxCount = Null THEN HistoryMaxCount ELSE maxCount)
    /\ UNCHANGED <<savedGuildMap, bots, source, endStyle, pageSize, config, now, guildTable,
                   events, hook, gcCalls, gc, track>>

\* The first guild's history around a restart: a message sent before the
\* plugin went down, one sent while it was down, and one sent at launch.
OpsHistory ==
    << [id |-> 11, content |-> "x", timestamp |-> LaunchTime - 2,
        user |-> <<UserOf(getGid(Guild1))>>],
       [id |-> 12, content |-> "x", timestamp |-> LaunchTime - 1,
        user |-> <<UserOf(getGid(Guild1))>>],
       [id |-> 13, content |-> "x", timestamp |-> LaunchTime,
        user |-> <<UserOf(getGid(Guild1))>>] >>

\* The live event of the message sent at launch: it carries the content as
\* sent, the platform lists the message with the content as it stands.
OpsSessions ==
    { [platform |-> Guild1.platform, selfId |-> Guild1.managerBotId,
       guildId |-> Guild1.guildId, userId |-> UserOf(getGid(Guild1)).id,
       username |-> UserOf(getGid(Guild1)).name, content |-> "y", timestamp |-> LaunchTime,
       messageId |-> OpsHistory[3].id] }

\* Durations the command is given: a window, an end before its start, and
\* the epoch as both ends.
OpsDurations ==
    { <<LaunchTime - 2, LaunchTime>>, <<LaunchTime, LaunchTime - 2>>, <<0, 0>> }

\* The connections of the first guild's manager bot: a NapCat one, or a
\* plain one and a NapCat one under the same selfId with the plain one first.
OpsBots ==
    LET bot(n) == [platform |-> Guild1.platform, selfId |-> Guild1.managerBotId,
                   isActive |-> TRUE, isNapCat |-> n]
    IN  {<<bot(TRUE)>>, <<bot(FALSE), bot(TRUE)>>}

\* The plugin as constructed after a restart: the registry is not loaded
\* yet, the guild table holds the first guild as tracked, and the archive
\* holds nothing or the message sent before the plugin went down.
OpsInit ==
    /\ \E ro \in BOOLEAN : config = [DefaultConfig EXCEPT !.readonly = ro]
    /\ LiveIdle
    /\ savedGuildMap = <<>>
    /\ guildTable = {SavedGuild(Guild1, TRUE)}
    /\ store \in {{}, {MessageRow(Guild1, OpsHistory[1])}}
    /\ store0 = store
    /\ bots \in OpsBots
    /\ source = [gid \in Gids |-> IF gid = getGid(Guild1) THEN OpsHistory ELSE <<>>]
    /\ endStyle = "nonext"
    /\ pageSize = PageSize
    /\ FetchIdle

OpsNext ==
    \/ StartGet
    \/ StartLoaded
    \/ \E force \in BOOLEAN, d \in OpsDurations, maxCount \in {Null, 1} :
         FetchHistoryCommand(force, d[1], d[2], maxCount)
    \/ \E task \in DOMAIN pc : GetStartTokenBefore(task)
    \/ \E task \in DOMAIN pc : GetStartTokenBeforeThrows(task)
    \/ \E task \in DOMAIN pc : RequestPage(task)
    \/ \E task \in DOMAIN pc : UpsertReturns(task)
    \/ Return
    \/ Reject
    \/ CommandReturn
    \/ CommandReject
    \/ \E kind \in {"message", "send"}, session \in OpsSessions : SaveMessage(kind, session)
    \/ \E t \in 1..MaxEvents : HookGetGuild(t)
    \/ \E t \in 1..MaxEvents : HookUpsertGuild(t)
    \/ \E t \in 1..MaxEvents : HookUpsertMessage(t)

OpsSpec == OpsInit /\ [][OpsNext]_vars

(* ---------------------- reference definitions ------------------------- *)

RECURSIVE IterAll(_, _, _, _), WalkAlone(_, _, _, _), SumOk(_), SeqSum(_)

\* Everything getMessageIter yields from a start token when the loop never
\* leaves early: the reversed pages, one after the other.
IterAll(src, cur, limit, style) ==
    LET list == GetMessageList(src, cur, limit, style)
    IN  IF ~list.hasData THEN <<>>
        ELSE Reverse(list.data) \o
             (IF list.next = Null THEN <<>> ELSE IterAll(src, list.next, limit, style))

\* The walk a guild's task makes from its start token.
FullWalk(gid) == IterAll(source[gid], startToken[gid], pageSize, endStyle)

\* The outcome of one guild walking `msgs` on its own over a table holding
\* the ids `ids`, every request and upsert succeeding: an 'ok' result with
\* its exit, or the error the loop ends with at a message without sender.
WalkAlone(msgs, ids, cnt, acc) ==
    IF msgs = <<>>
      THEN [type |-> "ok", inserted |-> acc.inserted, exit |-> "exhausted",
            upserted |-> acc.upserted]
    ELSE LET m == Head(msgs)
             new == m.id \notin ids
             ins == acc.inserted + (IF new THEN 1 ELSE 0)
             ups == Append(acc.upserted, m.id)
         IN  IF cnt = opts.maxCount
               THEN [type |-> "ok", inserted |-> acc.inserted, exit |-> "reached-max",
                     upserted |-> acc.upserted]
             ELSE IF m.content = ""
               THEN WalkAlone(Tail(msgs), ids, cnt + 1, acc)
             ELSE IF m.user = <<>>
               THEN [type |-> "error", inserted |-> 0, exit |-> "internal-error",
                     upserted |-> acc.upserted]
             ELSE IF (~new /\ opts.stopOnOld)
                     \/ (opts.start # Null /\ m.timestamp < opts.start)
               THEN [type |-> "ok", inserted |-> ins, exit |-> "done", upserted |-> ups]
             ELSE WalkAlone(Tail(msgs), ids \cup {m.id}, cnt + 1,
                            [inserted |-> ins, upserted |-> ups])

Alone(gid) == WalkAlone(FullWalk(gid), StoredIds(store0), 0, [inserted |-> 0, upserted |-> <<>>])

NonEmpty(m) == m.content # ""

\* A message the loop builds a record from: non-empty and with a sender.
Upsertable(m) == m.content # "" /\ m.user # <<>>

SumOk(rs) ==
    IF rs = <<>> THEN 0
    ELSE (IF Head(rs).type = "ok" THEN Head(rs).inserted ELSE 0) + SumOk(Tail(rs))

SeqSum(s) == IF s = <<>> THEN 0 ELSE Head(s) + SeqSum(Tail(s))

UpsertedIds(gid) == [k \in 1..Len(upserts[gid]) |-> upserts[gid][k].id]

\* The connection found for the guild's manager bot is missing or inactive.
NoLiveBot(g) ==
    LET found == SelectSeq(bots, LAMBDA b : b.platform = g.platform /\ b.selfId = g.managerBotId)
    IN  found = <<>> \/ ~Head(found).isActive

\* The task of a guild ran to a result with every request and store call succeeding.
Healthy(gid) == pc[gid] = "done" /\ threw[gid] = "none" /\ result[gid].type = "ok"

Min(a, b) == IF a < b THEN a ELSE b

TypeOK ==
    /\ fh \in {"idle", "running", "returned", "thrown"}
    /\ cmd.fh \in {"idle", "running", "returned", "thrown"}
    /\ DOMAIN pc \subseteq Tasks
    /\ \A task \in DOMAIN pc : pc[task] \in {"none", "resume", "request", "upsert", "done", "rejected"}

(* ------------------------------ claims -------------------------------- *)

\* C1: the report of every fetchHistory call has errorCount + okCount equal
\* to the number of results (one per guild tracked at the call), and
\* messageCount equal to the sum of `inserted` over exactly the 'ok' results.
C1_AggregateCorrect ==
    fh = "returned" =>
      /\ Len(report.results) = Len(tracked)
      /\ \A i \in 1..Len(tracked) :
           /\ report.results[i].guild = getGid(tracked[i])
           /\ report.results[i].type = result[getGid(tracked[i])].type
           /\ report.results[i].inserted = result[getGid(tracked[i])].inserted
      /\ report.errorCount + report.okCount = Len(report.results)
      /\ report.okCount = Cardinality({i \in 1..Len(report.results) : report.results[i].type = "ok"})
      /\ report.messageCount = SumOk(report.results)

\* A report mixing an error result with an ok result that inserted messages.
C1_Witness ==
    /\ fh = "returned"
    /\ report.errorCount = 1
    /\ report.okCount = 1
    /\ report.messageCount >= 1

\* C2: an exception raised by a guild's page request or upsert gives that
\* guild {type:'error', error:'internal-error'}; a sibling whose own requests
\* and store calls succeeded ends 'ok' with the inserted count and exit of its
\* walk taken alone (a sibling whose own history holds a message without
\* sender ends as its walk taken alone does, in error); such an exception
\* never makes fetchHistory throw.
C2_PerGuildIsolation ==
    /\ \A g \in TrackedGids :
         threw[g] \in {"page", "upsert"} =>
           /\ pc[g] = "done"
           /\ result[g] = ErrorResult("internal-error")
           /\ \A h \in TrackedGids \ {g} :
                (pc[h] = "done" /\ threw[h] \in {"none", "record"}
                   /\ ~NoLiveBot(GuildOf(h))) =>
                  LET alone == Alone(h)
                  IN  /\ threw[h] = "none" => result[h].type = "ok"
                      /\ result[h].type = alone.type
                      /\ result[h].inserted = alone.inserted
                      /\ result[h].type = "ok" => result[h].exit = alone.exit
                      /\ result[h].type = "error" => result[h] = ErrorResult(alone.exit)
    /\ fh = "thrown" => \E g \in TrackedGids : threw[g] = "resume"
    /\ (fh = "running" /\ \A g \in TrackedGids : pc[g] = "done") => ENABLED Return

\* One guild failed on an upsert after inserting a message, its sibling
\* inserted a message, and fetchHistory returned.
C2_Witness ==
    /\ fh = "returned"
    /\ \E g \in TrackedGids, h \in TrackedGids :
         /\ g # h
         /\ threw[g] = "upsert"
         /\ inserted[g] >= 1
         /\ result[h].type = "ok"
         /\ result[h].inserted >= 1

\* C3: an exception raised by the resume-position store query is converted
\* to {type:'error', error:'internal-error'} for that guild and fetchHistory
\* does not fail.
C3_ResumeFailureContained ==
    \A g \in TrackedGids :
      threw[g] = "resume" =>
        /\ pc[g] = "done"
        /\ result[g] = ErrorResult("internal-error")
        /\ fh # "thrown"

\* C4: a tracked guild without a live, active manager bot gets
\* {type:'error', error:'bot-not-available'} with no store read, no store
\* write and no page request, and none of its rows is added to the store.
C4_UnavailableBot ==
    \A g \in TrackedGids :
      NoLiveBot(GuildOf(g)) =>
        /\ pc[g] = "done"
        /\ result[g] = ErrorResult("bot-not-available")
        /\ storeReads[g] = 0
        /\ pageReqs[g] = 0
        /\ upserts[g] = <<>>
        /\ walked[g] = <<>>
        /\ {r \in store : getGid(r) = g} = {r \in store0 : getGid(r) = g}

\* A finished batch in which a guild with an inactive bot sits beside a
\* guild that inserted messages.
C4_Witness ==
    /\ fh = "returned"
    /\ \E g \in TrackedGids, h \in TrackedGids :
         /\ \E i \in 1..Len(bots) : bots[i].selfId = GuildOf(g).managerBotId /\ ~bots[i].isActive
         /\ source[g] # <<>>
         /\ result[g].error = "bot-not-available"
         /\ result[h].type = "ok" /\ result[h].inserted >= 1

\* The number of page requests that yield n messages.
PagesFor(n) == (n + pageSize - 1) \div pageSize

\* C5: a guild offering more than maxCount messages, all non-empty and none
\* stored, with stopOnOld = false and no duration.start cutoff among the
\* first maxCount, ends 'reached-max' with inserted = maxCount, and no page
\* is requested beyond the one holding the boundary message.
C5_ReachedMax ==
    \A g \in TrackedGids :
      LET w == FullWalk(g)
      IN  ( /\ Healthy(g)
            /\ ~opts.stopOnOld
            /\ Len(w) > opts.maxCount
            /\ \A i \in 1..Len(w) : w[i].content # "" /\ w[i].id \notin StoredIds(store0)
            /\ \A i \in 1..opts.maxCount :
                 ~(opts.start # Null /\ w[i].timestamp < opts.start) )
          => /\ result[g] = OkResult(opts.maxCount, "reached-max")
             /\ Len(walked[g]) = opts.maxCount + 1
             /\ walked[g] = SubSeq(w, 1, opts.maxCount + 1)
             /\ pageReqs[g] = PagesFor(opts.maxCount + 1)

\* A guild with three new messages and maxCount = 1 stops at the second
\* message of the first page; the second page is never requested.
C5_Witness ==
    \E g \in TrackedGids :
      /\ Healthy(g)
      /\ ~opts.stopOnOld /\ opts.start = Null /\ opts.maxCount = 1
      /\ Len(FullWalk(g)) = 3
      /\ \A i \in 1..3 : FullWalk(g)[i].content # "" /\ FullWalk(g)[i].id \notin StoredIds(store0)
      /\ result[g] = OkResult(1, "reached-max")
      /\ pageReqs[g] = 1

\* C6 as stated: the run stops when the seen-count reaches maxCount, so the
\* maxCount-th message yielded is never upserted and a run upserts at most
\* maxCount - 1 messages.
C6_StopsAtMaxCountth ==
    \A g \in TrackedGids :
      opts.maxCount >= 1 =>
        /\ Len(upserts[g]) <= opts.maxCount - 1
        /\ Len(walked[g]) >= opts.maxCount =>
             \A k \in 1..Len(upserts[g]) : upserts[g][k].id # walked[g][opts.maxCount].id

\* C6 amended: the seen-count is compared before it is incremented, so the
\* run stops with 'reached-max' at the (maxCount+1)-th message yielded, which
\* is not processed; the first maxCount messages are processed and a run
\* upserts at most maxCount messages.
C6_StopsAfterMaxCount ==
    \A g \in TrackedGids :
      /\ count[g] = Len(walked[g])
      /\ Len(walked[g]) <= opts.maxCount + 1
      /\ Len(upserts[g]) <= opts.maxCount
      /\ Len(walked[g]) = opts.maxCount + 1 =>
           /\ pc[g] = "done"
           /\ result[g] = OkResult(inserted[g], "reached-max")
           /\ \A k \in 1..Len(upserts[g]) : upserts[g][k].id # walked[g][opts.maxCount + 1].id
      /\ (pc[g] = "done" /\ result[g].exit = "reached-max") =>
           Len(walked[g]) = opts.maxCount + 1

\* A run that ended 'reached-max' having upserted maxCount = 2 messages, the
\* maxCount-th yielded message among them.
C6_Witness ==
    \E g \in TrackedGids :
      /\ opts.maxCount = 2
      /\ pc[g] = "done" /\ result[g].exit = "reached-max"
      /\ Len(upserts[g]) = 2
      /\ upserts[g][2].id = walked[g][2].id

\* C7: the total number of messages upserted across all guilds in one
\* fetchHistory call does not exceed maxCount.
C7_TotalWithinMaxCount ==
    fh # "idle" =>
      SeqSum([i \in 1..Len(tracked) |-> Len(upserts[getGid(tracked[i])])]) <= opts.maxCount

\* C8 as stated: empty-content messages consume no maxCount slot, so a run
\* upserts what it would upsert with the empty messages removed from the walk.
C8_EmptyTakesNoSlot ==
    \A g \in TrackedGids :
      Healthy(g) =>
        UpsertedIds(g) =
          WalkAlone(SelectSeq(FullWalk(g), NonEmpty), StoredIds(store0), 0,
                    [inserted |-> 0, upserted |-> <<>>]).upserted

\* C8 amended: an empty-content message is not upserted and does not
\* increment `inserted`, but it does consume a maxCount slot: the seen-count
\* counts every yielded message, and the messages upserted are the non-empty
\* ones among the first maxCount yielded, short of a message without sender,
\* which ends the task in error before its upsert.
C8_EmptySkippedButCounted ==
    \A g \in TrackedGids :
      /\ count[g] = Len(walked[g])
      /\ LET taken == SelectSeq(SubSeq(walked[g], 1, Min(Len(walked[g]), opts.maxCount)), Upsertable)
         IN  UpsertedIds(g) = [k \in 1..Len(taken) |-> taken[k].id]
      /\ inserted[g] <= Len(upserts[g])
      /\ \A r \in store \ store0 : r.content # ""
      /\ Healthy(g) => LET alone == Alone(g)
                       IN  /\ UpsertedIds(g) = alone.upserted
                           /\ result[g].inserted = alone.inserted
                           /\ result[g].exit = alone.exit

\* A run that ended 'reached-max' after an empty message took one of its
\* maxCount = 2 slots: one message upserted, while two non-empty messages
\* were on offer.
C8_Witness ==
    \E g \in TrackedGids :
      /\ Healthy(g)
      /\ opts.maxCount = 2 /\ ~opts.stopOnOld /\ opts.start = Null
      /\ result[g].exit = "reached-max"
      /\ Len(walked[g]) = 3
      /\ walked[g][1].content = ""
      /\ walked[g][2].content # "" /\ walked[g][3].content # ""
      /\ Len(upserts[g]) = 1
      /\ result[g].inserted = 1

\* The upsert call k of a guild's task returned (it did not raise).
Returned(g, k) == upserts[g][k].answer \in {"inserted", "ignored"}

\* C9: with stopOnOld = true the run stops with exit 'done' at the first
\* non-empty message whose id is already stored: it is the last message
\* taken from the iterator and the last upsert, and `inserted` is the number
\* of non-empty messages walked before it, all new. With stopOnOld = false an
\* already stored message does not stop the walk: exit 'done' then only
\* comes from the duration.start cutoff.
C9_StopOnOld ==
    \A g \in TrackedGids :
      /\ \A k \in 1..Len(upserts[g]) :
           (opts.stopOnOld /\ upserts[g][k].answer = "ignored" /\ Returned(g, k)) =>
             /\ k = Len(upserts[g])
             /\ walked[g][Len(walked[g])].id = upserts[g][k].id
             /\ pc[g] = "done"
             /\ result[g] = OkResult(k - 1, "done")
             /\ \A j \in 1..(k - 1) : upserts[g][j].answer = "inserted"
             /\ k - 1 = Len(SelectSeq(SubSeq(walked[g], 1, Len(walked[g]) - 1), NonEmpty))
      /\ (~opts.stopOnOld /\ pc[g] = "done" /\ result[g].exit = "done") =>
           /\ opts.start # Null
           /\ upserts[g][Len(upserts[g])].timestamp < opts.start
      /\ (~opts.stopOnOld /\ Healthy(g)) =>
           result[g].inserted = Cardinality({k \in 1..Len(upserts[g]) : upserts[g][k].answer = "inserted"})

\* A run with stopOnOld that inserted a new message, then met a stored one
\* and stopped with an older message of the source left unwalked.
C9_Witness ==
    \E g \in TrackedGids :
      /\ opts.stopOnOld /\ opts.start = Null
      /\ Healthy(g)
      /\ result[g] = OkResult(1, "done")
      /\ Len(upserts[g]) = 2 /\ upserts[g][2].answer = "ignored"
      /\ Len(walked[g]) < Len(FullWalk(g))

\* C10: when duration.start is set, the run stops with exit 'done' at the
\* first non-empty message it processes whose timestamp is older than
\* duration.start, with stopOnOld true or false: that message is the last one
\* taken from the iterator and the last one upserted.
C10_StartCutoff ==
    \A g \in TrackedGids :
      \A k \in 1..Len(upserts[g]) :
        (opts.start # Null /\ upserts[g][k].timestamp < opts.start /\ Returned(g, k)) =>
          /\ k = Len(upserts[g])
          /\ walked[g][Len(walked[g])].id = upserts[g][k].id
          /\ pc[g] = "done"
          /\ result[g].type = "ok" /\ result[g].exit = "done"

\* A run with stopOnOld = false that inserted a message inside the window,
\* stopped on a new message older than duration.start and left an older
\* message of the source unwalked.
C10_Witness ==
    \E g \in TrackedGids :
      /\ ~opts.stopOnOld /\ opts.start = 3
      /\ Healthy(g)
      /\ result[g].exit = "done"
      /\ Len(upserts[g]) = 2
      /\ upserts[g][2].answer = "inserted"
      /\ upserts[g][1].timestamp >= 3 /\ upserts[g][2].timestamp < 3
      /\ Len(walked[g]) < Len(FullWalk(g))

\* The rows a guild has in a table.
RowsIn(st, g) == {r \in st : getGid(r) = g}

\* C11: with stopOnOld = false and none of the guild's messages stored, the
\* messages a run inserts are exactly those with timestamp >= duration.start;
\* the first message older than duration.start only triggers 'done', is not
\* added to the store and is not counted in `inserted`.
C11_WindowLowerBound ==
    \A g \in TrackedGids :
      (Healthy(g) /\ ~opts.stopOnOld /\ opts.start # Null /\ RowsIn(store0, g) = {}) =>
        /\ \A r \in RowsIn(store, g) : r.timestamp >= opts.start
        /\ result[g].inserted =
             Cardinality({k \in 1..Len(upserts[g]) : upserts[g][k].timestamp >= opts.start})

\* C12: when duration.end is set, a run never inserts a message whose
\* timestamp is >= duration.end.
C12_WindowUpperBound ==
    (fh # "idle" /\ opts.end # Null) =>
      \A r \in store \ store0 : r.timestamp < opts.end

\* The number of non-empty messages of a sequence whose id is not stored.
NewIn(msgs, ids) ==
    Cardinality({i \in 1..Len(msgs) : msgs[i].content # "" /\ msgs[i].id \notin ids})

\* The walk runs out before reached-max, a stopOnOld duplicate or the
\* duration.start cutoff fires.
RunsOut(w) ==
    /\ Len(w) <= opts.maxCount
    /\ \A i \in 1..Len(w) :
         w[i].content # "" =>
           /\ ~(opts.stopOnOld /\ w[i].id \in StoredIds(store0))
           /\ ~(opts.start # Null /\ w[i].timestamp < opts.start)

\* C13 as stated: a run whose source runs out first ends 'exhausted' with
\* `inserted` equal to the number of non-empty, not previously stored
\* messages in the whole source.
C13_ExhaustedWholeSource ==
    \A g \in TrackedGids :
      (Healthy(g) /\ RunsOut(FullWalk(g))) =>
        result[g] = OkResult(NewIn(source[g], StoredIds(store0)), "exhausted")

\* C13 amended: a run whose source runs out first ends 'exhausted' having
\* walked everything the source lists before the start cursor, with
\* `inserted` equal to the number of non-empty, not previously stored
\* messages of that walk (the whole source when the start cursor is unset);
\* a walk of exactly maxCount messages ends 'exhausted', not 'reached-max'.
C13_Exhausted ==
    \A g \in TrackedGids :
      LET w == FullWalk(g)
      IN  /\ (Healthy(g) /\ RunsOut(w)) =>
               /\ result[g] = OkResult(NewIn(w, StoredIds(store0)), "exhausted")
               /\ walked[g] = w
               /\ startToken[g] = Null => w = Reverse(source[g])
          /\ (pc[g] = "done" /\ result[g].exit = "exhausted") =>
               /\ walked[g] = w
               /\ Len(w) <= opts.maxCount

\* A source of exactly maxCount = 2 messages, both inserted, ends
\* 'exhausted'.
C13_Witness ==
    \E g \in TrackedGids :
      /\ Healthy(g)
      /\ opts.maxCount = 2
      /\ Len(source[g]) = 2 /\ startToken[g] = Null
      /\ result[g] = OkResult(2, "exhausted")

\* C14: fetchHistory returns only after every guild task has reached a
\* terminal state; its results hold exactly one entry for each guild tracked
\* when the call started and none for a saved-but-untracked guild, and an
\* untracked guild is never paged.
C14_WaitForAll ==
    LET trackedNow == {i \in 1..Len(savedGuildMap) : savedGuildMap[i].isTracked}
    IN  /\ fh = "returned" =>
             /\ \A i \in trackedNow :
                  /\ pc[getGid(savedGuildMap[i])] = "done"
                  /\ result[getGid(savedGuildMap[i])].type \in {"ok", "error"}
                  /\ Cardinality({k \in 1..Len(report.results) :
                         report.results[k].guild = getGid(savedGuildMap[i])}) = 1
             /\ Len(report.results) = Cardinality(trackedNow)
             /\ \A k \in 1..Len(report.results) : report.results[k].type \in {"ok", "error"}
        /\ \A i \in 1..Len(savedGuildMap) :
             ~savedGuildMap[i].isTracked =>
               LET g == getGid(savedGuildMap[i])
               IN  /\ pc[g] = "none"
                   /\ pageReqs[g] = 0 /\ storeReads[g] = 0 /\ upserts[g] = <<>>
                   /\ \A k \in 1..Len(report.results) : report.results[k].guild # g

\* A returned call over one tracked guild that inserted messages, beside a
\* saved but untracked guild with an active bot and a message to offer.
C14_Witness ==
    /\ fh = "returned"
    /\ Len(report.results) = 1
    /\ report.results[1].type = "ok" /\ report.results[1].inserted >= 1
    /\ \E i \in 1..Len(savedGuildMap) :
         /\ ~savedGuildMap[i].isTracked
         /\ ~NoLiveBot(savedGuildMap[i])
         /\ source[getGid(savedGuildMap[i])] # <<>>

(* ------------------- claims on garbage collection --------------------- *)

\* The rows of a table older than a cutoff.
OlderThan(st, cutoff) == {r \in st : r.timestamp < cutoff}

\* C15: gc() with gc.enabled = false returns null, issues no delete, and no
\* archived row ever leaves the store; gc() with gc.enabled = true that finds
\* no row older than the cutoff returns 0, not null, and removes nothing.
C15_DisabledVsZero ==
    /\ ~config.gc.enabled =>
         /\ store0 \subseteq store
         /\ gc.pc # "removing"
         /\ gc.pc = "returned" => (gc.ret = Null /\ ~gc.issued)
    /\ (config.gc.enabled /\ gc.pc = "returned") =>
         /\ gc.issued
         /\ gc.ret # Null
         /\ OlderThan(gc.before, gc.now - config.gc.olderThan * DayMs) = {} =>
              (gc.ret = 0 /\ gc.after = gc.before)

\* A disabled gc() has returned although rows older than its would-be cutoff
\* are stored.
C15_Witness ==
    /\ ~config.gc.enabled
    /\ gc.pc = "returned"
    /\ OlderThan(store, gc.now - config.gc.olderThan * DayMs) # {}

\* C16: with untrackedOnly the rows gc() removes are the old rows whose
\* platform:guildId is not the key of a guild tracked when gc() was called,
\* so every row of a tracked guild stays; without it gc() removes every old
\* row, whatever its guild.
C16_UntrackedOnly ==
    (config.gc.enabled /\ gc.pc = "returned") =>
      LET old == OlderThan(gc.before, gc.minTime)
          removed == gc.before \ gc.after
      IN  IF config.gc.untrackedOnly
            THEN /\ removed = {r \in old : getGid(r) \notin gc.keep}
                 /\ \A r \in gc.before : getGid(r) \in gc.keep => r \in gc.after
            ELSE removed = old

\* An untrackedOnly gc() has removed an old row of an untracked guild and
\* kept an equally old row of a tracked guild.
C16_Witness ==
    /\ config.gc.untrackedOnly
    /\ gc.pc = "returned"
    /\ \E r \in gc.before \ gc.after, k \in gc.after :
         /\ k.timestamp = r.timestamp
         /\ getGid(k) \in gc.keep
         /\ getGid(k) \in {getGid(trackedGuilds[i]) : i \in 1..Len(trackedGuilds)}

\* C17: an enabled gc() uses cutoff = now - olderThan * 86,400,000 ms; every
\* row with timestamp >= cutoff is still stored afterwards; without
\* untrackedOnly no row with timestamp < cutoff is; and the returned number
\* is the store's size before minus its size after.
C17_CutoffAndCount ==
    (config.gc.enabled /\ gc.pc = "returned") =>
      LET cutoff == gc.now - config.gc.olderThan * 86400000
      IN  /\ gc.minTime = cutoff
          /\ gc.after \subseteq gc.before
          /\ \A r \in gc.before : r.timestamp >= cutoff => r \in gc.after
          /\ ~config.gc.untrackedOnly => OlderThan(gc.after, cutoff) = {}
          /\ gc.ret = Cardinality(gc.before) - Cardinality(gc.after)

\* gc() has removed rows and kept a row whose timestamp is the cutoff itself.
C17_Witness ==
    /\ gc.pc = "returned"
    /\ gc.ret > 0
    /\ \E r \in gc.after : r.timestamp = gc.now - config.gc.olderThan * 86400000

(* --------------------- claims on the ingestion hook ------------------- *)

\* The events handled so far.
Handled == {t \in 1..MaxEvents : hook[t].pc # "none"}

\* The event is past both early returns of the hook.
Accepted(t) == ~config.readonly /\ hook[t].session.guildId # ""

\* C18: in read-only mode the registry and the guild table stay as loaded
\* and no row is added to the store; an event without guild context returns
\* at once and leaves no entry, guild row or message row behind.
C18_HookNoOp ==
    /\ config.readonly =>
         /\ savedGuildMap \in Registries
         /\ guildTable = TableOf(savedGuildMap)
         /\ store \subseteq store0
         /\ \A t \in Handled : hook[t].pc = "done" /\ hook[t].upsert = "none"
    /\ \A t \in Handled :
         hook[t].session.guildId = "" =>
           /\ hook[t].pc = "done"
           /\ hook[t].upsert = "none"
           /\ MapGet(savedGuildMap, getGid(hook[t].session)) = {}
           /\ \A r \in guildTable \cup store : r.guildId # ""

\* In read-only mode a message of an unknown guild and a direct message
\* have both been observed.
C18_Witness ==
    /\ config.readonly
    /\ \E t, u \in Handled :
         /\ hook[t].session.guildId # "" /\ ~hook[t].wasKnown
         /\ hook[u].session.guildId = ""

\* The registry or table entry is the one the hook makes for the session's guild.
IsLazyEntry(e, session) ==
    /\ e.platform = session.platform
    /\ e.guildId = session.guildId
    /\ e.managerBotId = session.selfId
    /\ ~e.isTracked

\* C19: once the hook has handled a message of an unknown guild, the guild
\* is in the registry and in the guild table with isTracked = false,
\* whatever the tracking policy.
C19_KnownWhateverPolicy ==
    \A t \in Handled :
      (Accepted(t) /\ ~hook[t].wasKnown /\ hook[t].pc = "done") =>
        /\ \E e \in MapGet(savedGuildMap, getGid(hook[t].session)) : IsLazyEntry(e, hook[t].session)
        /\ \E e \in guildTable : IsLazyEntry(e, hook[t].session)

\* The guilds tracked in the registry.
TrackedKeys == {getGid(savedGuildMap[i]) : i \in {j \in 1..Len(savedGuildMap) : savedGuildMap[j].isTracked}}

\* C20: with requireTracking on, an event of a guild not tracked when it is
\* handled returns at once and issues no upsert, and every row added to the
\* store belongs to a tracked guild; any other accepted event ends with its
\* message upserted under its message id.
C20_RequireTracking ==
    /\ \A t \in Handled :
         Accepted(t) =>
           IF config.requireTracking /\ ~hook[t].wasTracked
             THEN hook[t].pc = "done" /\ hook[t].upsert = "none"
             ELSE hook[t].pc = "done" =>
                    /\ hook[t].upsert \in {"inserted", "ignored"}
                    /\ gcCalls = 0 =>
                         /\ hook[t].session.messageId \in StoredIds(store)
                         /\ hook[t].upsert = "inserted" => SessionRow(hook[t].session) \in store
    /\ config.requireTracking =>
         \A r \in store \ store0 : getGid(r) \in TrackedKeys

\* With requireTracking on, a message of a tracked guild has been stored and
\* a message of an untracked guild has been dropped.
C20_Witness ==
    /\ config.requireTracking
    /\ \E t, u \in Handled :
         /\ Accepted(t) /\ hook[t].wasTracked /\ hook[t].upsert = "inserted"
         /\ SessionRow(hook[t].session) \in store
         /\ Accepted(u) /\ ~hook[u].wasTracked /\ hook[u].pc = "done"
         /\ hook[u].session.messageId \notin StoredIds(store)

(* ------------------- claims on the resume cursor ---------------------- *)

\* The connection found for the guild's manager bot is a NapCat connection.
IsNapCat(g) ==
    LET found == SelectSeq(bots, LAMBDA b : b.platform = g.platform /\ b.selfId = g.managerBotId)
    IN  found # <<>> /\ Head(found).platform = "onebot" /\ Head(found).isNapCat

\* C27: without duration.end, or on a connection that cannot resume by
\* message id, no store query is made and the first request's cursor is
\* unset; otherwise the cursor is the id of a stored message with the
\* greatest timestamp < duration.end, and unset only if the store held no
\* such message; the first request uses that cursor and every later request
\* the `next` of the page before.
C27_ResumeCursor ==
    \A gid \in TrackedGids :
      LET tok == startToken[gid]
      IN  /\ (opts.end = Null \/ ~IsNapCat(GuildOf(gid))) =>
               (tok = Null /\ storeReads[gid] = 0)
          /\ tok # Null =>
               \E r \in store :
                 /\ r.id = tok
                 /\ r.timestamp < opts.end
                 /\ \A q \in store0 : q.timestamp < opts.end => q.timestamp <= r.timestamp
          /\ (pc[gid] \in {"request", "upsert", "done"} /\ storeReads[gid] = 1
                /\ \E q \in store0 : q.timestamp < opts.end) => tok # Null
          /\ (pc[gid] = "request" /\ pageReqs[gid] = 0) => cursor[gid] = tok
          /\ (pc[gid] = "request" /\ pageReqs[gid] > 0) =>
               (cursor[gid] = listNext[gid] /\ cursor[gid] # Null)

\* A guild's first request was made with the id of a stored message as its
\* cursor, while another guild is on a later request.
C27_Witness ==
    \E gid, other \in TrackedGids :
      /\ startToken[gid] # Null
      /\ pageReqs[gid] >= 1
      /\ startToken[other] = Null
      /\ pc[other] = "request" /\ pageReqs[other] >= 1

\* C29: the start cursor of a guild's backfill is the id of a stored message
\* of that guild.
C29_CursorOfOwnGuild ==
    \A gid \in TrackedGids :
      startToken[gid] # Null =>
        \E r \in store : r.id = startToken[gid] /\ getGid(r) = gid

(* ------------------------ claims on read-only mode -------------------- *)

\* C30: in read-only mode the stored messages stay as they were, whatever
\* events are observed and whenever gc() runs.
C30_ReadonlyStoreFrozen == config.readonly => store = store0

(* ------------------- claims on the guild registry --------------------- *)

\* The guild has an isTracked = true row in a guild table.
TrackedIn(tab, gid) == \E e \in tab : getGid(e) = gid /\ e.isTracked

\* C21: no step takes isTracked = true away from a guild's registry entry
\* or stored row, and no step removes a guild from the registry.
C21_TrackedMonotonic ==
    [][\A gid \in Gids :
         /\ AlreadyTracked(savedGuildMap, gid) => AlreadyTracked(savedGuildMap', gid)
         /\ TrackedIn(guildTable, gid) => TrackedIn(guildTable', gid)
         /\ MapGet(savedGuildMap, gid) # {} => MapGet(savedGuildMap', gid) # {}]_vars

\* No saveMessage call and no track command is suspended at an await.
Quiescent ==
    /\ \A t \in 1..MaxEvents : hook[t].pc \in {"none", "done", "failed"}
    /\ \A k \in 1..Len(track) : track[k].pc \in {"guild-only", "already-tracked", "done", "failed"}

\* C28: whenever no hook call and no track command is suspended, the
\* registry holds exactly the stored guild rows.
C28_RegistryMatchesTable == Quiescent => TableOf(savedGuildMap) = guildTable

(* ----------------------- claims on termination ------------------------ *)

\* C26: a guild's task makes no more page requests than are needed to yield
\* maxCount + 1 messages, one closing request included.
C26_PageBound ==
    \A gid \in TrackedGids : pageReqs[gid] <= PagesFor(opts.maxCount + 1) + 1

(* ------------- claims on start() and the fetch-history command -------- *)

\* C22: with read-only mode off start() runs fetchHistory over
\* {start: 0, end: launch time} with stopOnOld, and when a tracked guild's
\* run ends 'ok' without 'reached-max', every non-empty message of the guild
\* sent before launch and after the newest archived message is stored; with
\* read-only mode on start() runs no backfill.
C22_StartupCatchUp ==
    /\ config.readonly => call.via # "start"
    /\ (call.started /\ ~config.readonly) => call.via = "start"
    /\ call.via = "start" =>
         /\ opts = [start |-> 0, end |-> LaunchTime, stopOnOld |-> TRUE,
                    maxCount |-> HistoryMaxCount]
         /\ fh = "returned" =>
              \A gid \in TrackedGids :
                (result[gid].type = "ok" /\ result[gid].exit # "reached-max") =>
                  \A i \in 1..Len(source[gid]) :
                    LET m == source[gid][i]
                        archived == {r \in store0 : getGid(r) = gid /\ r.timestamp < LaunchTime}
                    IN  (~IsEmpty(m) /\ m.timestamp < LaunchTime
                           /\ \A r \in archived : m.timestamp > r.timestamp) =>
                          m.id \in StoredIds(store)

\* The upserts of an id by a task that the store answered with inserted: 1,
\* each counted in the task's `inserted`.
Wins(task, id) ==
    {i \in 1..Len(upserts[task]) : upserts[task][i].id = id /\ upserts[task][i].answer = "inserted"}

C24_CommandGuards ==
    /\ (call.outcome # "none" /\ config.readonly /\ ~call.force) =>
         call.outcome = "readonly" /\ cmd.fh = "idle"
    /\ (call.outcome # "none" /\ config.readonly /\ call.force
          /\ (call.start = Null \/ call.end = Null \/ call.end > call.start)) =>
         call.outcome = "ran"
    /\ cmd.fh # "idle" => ~cmd.opts.stopOnOld
    /\ (call.outcome # "none" /\ call.start # Null /\ call.end # Null
          /\ call.end <= call.start) =>
         call.outcome # "ran"

\* C25: when a guild's backfill with stopOnOld exits 'done' on a message
\* that was already stored, every older non-empty message of the guild is
\* stored.
C25_ContiguousAtStop ==
    \A gid \in TrackedGids :
      (opts.stopOnOld /\ pc[gid] = "done" /\ result[gid].type = "ok"
         /\ result[gid].exit = "done" /\ upserts[gid] # <<>>
         /\ upserts[gid][Len(upserts[gid])].answer = "ignored") =>
        \A i \in 1..Len(source[gid]) :
          LET m == source[gid][i]
          IN  (~IsEmpty(m) /\ m.timestamp < upserts[gid][Len(upserts[gid])].timestamp) =>
                m.id \in StoredIds(store)

====
